---- MODULE Spec2Model ----
(***************************************************************************)
(* State-machine model of the end-to-end harness tests/e2e/run_tests.py of *)
(* debugger-cli: main() provisions one temporary config directory, runs    *)
(* the C, Rust, Python, Go and complex-Python scenarios against the        *)
(* debugger CLI (one child process per command), removes the directory in  *)
(* a finally block and exits with 0 or 1.  The LinkedList class and the    *)
(* level-order traversals of blog-tutorials, which the debugger is shown   *)
(* on, are modelled next to it as programs of their own.                   *)
(*                                                                         *)
(* The harness is sequential.  Every blocking interaction with the outside *)
(* (a probe, a compiler run, the spawn of a debugger command, the return   *)
(* of communicate()) is one action; what the outside answers is chosen     *)
(* nondeterministically from small sets.                                   *)
(***************************************************************************)
EXTENDS Integers, Sequences, FiniteSets, TLC

VARIABLES
    pc,         \* position in main(): check_binary, setup_config, scenario, finally, exit, done
    scen,       \* index of the scenario main() is at (1..5)
    step,       \* position inside the scenario (begin, compile, stop, start, ...)
    config_dir, \* main's local config_dir: the path setup_config returned, or None
    fs,         \* the file system below the temp directory: the set of existing paths
    failed,     \* main's local flag `failed`
    exc,        \* an exception is propagating out of main
    exitcode,   \* the process exit status, None while the process runs
    child,      \* the debugger CLI child that communicate() is waiting for
    last,       \* the most recent debugger command that was spawned
    ret,        \* what the most recent communicate() returned
    result,     \* per scenario: none, pass, fail, skip, raised
    toolchain,  \* per scenario: what the host answered about its compiler / adapter
    usedDir,    \* per scenario: the config_dir its commands were spawned with
    daemon,     \* per runtime directory: the debug session state of the daemon
    returned,   \* every path setup_config has returned so far
    issued,     \* the steps whose command the current scenario has spawned, in order
    nonzero,    \* the steps of the current scenario whose command returned non-zero
    probed,     \* per scenario: what its capability probe answered
    build,      \* per scenario: how its compiler run ended
    alive,      \* the number of debugger CLI children that have not exited
    sent,       \* how much of its input communicate() has written to the child's stdin
    closed,     \* communicate() has closed the child's stdin
    pipe,       \* the child's stdin pipe: what was written and not yet read
    received,   \* the command lines the child has read from its stdin, in order
    breaks,     \* the breakpoint locations set in the debug session
    ll,         \* blog-tutorials example 2: the LinkedList object of test_linked_list
    tree,       \* blog-tutorials example 3: the binary tree handed to the traversals
    queue,      \* example 3: the local `queue` of the traversal that is running
    level,      \* example 3: what level_order_traversal has collected
    correct     \* example 3: what level_order_correct has collected

hist == <<issued, nonzero, probed, build, alive>>

io == <<sent, closed, pipe, received>>

session == <<daemon, breaks>>

\* the state of the tutorial programs, which the harness never touches
tutorial == <<ll, tree, queue, level, correct>>

vars == <<pc, scen, step, config_dir, fs, failed, exc, exitcode, child, last,
          ret, result, toolchain, usedDir, daemon, returned, issued, nonzero,
          probed, build, alive, sent, closed, pipe, received, breaks,
          ll, tree, queue, level, correct>>

(***************************************************************************)
(* Bounds                                                                  *)
(***************************************************************************)
\* how many distinct names tempfile.mkdtemp may draw
MaxDirs == 2

TempNames == <<"debugger-test-config-a", "debugger-test-config-b",
               "debugger-test-config-c", "debugger-test-config-d">>

DirNames == {TempNames[i] : i \in 1..MaxDirs}

None == "None"

(***************************************************************************)
(* The file system: paths are sequences of components.                     *)
(***************************************************************************)
Prefixes(p) == {SubSeq(p, 1, n) : n \in 1..Len(p)}

\* os.makedirs(p, exist_ok=True): p and every missing parent
makedirs(files, p) == files \cup Prefixes(p)

\* os.path.exists
exists(files, p) == p \in files

AppConfigDir(d) == <<d, "debugger-cli">>

ConfigPath(d) == <<d, "debugger-cli", "config.toml">>

RuntimeDir(d) == <<d, "runtime">>

mkdtemp_any(files) == DirNames

\* tempfile.mkdtemp: a name whose directory does not exist yet
mkdtemp(files) == {d \in DirNames : ~exists(files, <<d>>)}

\* the files setup_config leaves behind for the directory d it created
setup_config_files(files, d) ==
    makedirs(makedirs(files, AppConfigDir(d)), ConfigPath(d))

\* shutil.rmtree(d) without ignore_errors raises when d does not exist
rmtree_raises(files, d) == ~exists(files, <<d>>)

\* shutil.rmtree(d): d and everything below it is gone
rmtree(files, d) == {p \in files : p[1] # d}

PrepareEnv_noRuntime(files, d) == files

\* run_debugger_command, before Popen: XDG_RUNTIME_DIR is created when a
\* config_dir is given
PrepareEnv(files, d) ==
    IF d # None THEN makedirs(files, RuntimeDir(d)) ELSE files

\* the environment is fully provisioned: registry file and socket directory
Provisioned(files, d) ==
    /\ exists(files, ConfigPath(d))
    /\ exists(files, RuntimeDir(d))

\* the temp directories that exist
LiveEnvs(files) == {d \in DirNames : exists(files, <<d>>)}

(***************************************************************************)
(* Strings: captured text is a sequence of tokens; `sub in s` is literal   *)
(* containment of a contiguous run.                                        *)
(***************************************************************************)
In(sub, s) ==
    \E i \in 0..(Len(s) - Len(sub)) : SubSeq(s, i + 1, i + Len(sub)) = sub

Reverse(s) == [i \in 1..Len(s) |-> s[Len(s) + 1 - i]]

\* what a child may print, relative to the text a scenario expects
Stdouts(exp) ==
    { <<>>,
      exp,
      <<"[out] ">> \o exp \o <<"\n">>,
      SubSeq(exp, 1, Len(exp) - 1) \o <<" ">> \o SubSeq(exp, Len(exp), Len(exp)),
      Reverse(exp),
      SubSeq(exp, 1, Len(exp) - 1) }

\* the steps whose captured stdout the harness reads (locals only to warn)
ReadSteps == {"locals", "output", "batch"}

\* the stdout drawn for a step: the full set where the code reads it
StdoutsOf(s, exp) == IF s \in ReadSteps THEN Stdouts(exp) ELSE {<<>>, exp}

(***************************************************************************)
(* The scenarios of main(), in order.                                      *)
(***************************************************************************)
Scenarios ==
    << [name |-> "test_c", kind |-> "program", probe |-> "none",
        compiler |-> "compile_c",
        expected |-> <<"Hello from ", "C", "! Sum is ", "30">>],
       [name |-> "test_rs", kind |-> "program", probe |-> "none",
        compiler |-> "compile_rust",
        expected |-> <<"Hello from ", "Rust", "! Sum is ", "30">>],
       [name |-> "test_py", kind |-> "program", probe |-> "check_debugpy",
        compiler |-> None,
        expected |-> <<"Hello from ", "Python", "! Sum is ", "30">>],
       [name |-> "test_go", kind |-> "program", probe |-> "check_delve",
        compiler |-> "compile_go",
        expected |-> <<"Hello from ", "Go", "! Sum is ", "30">>],
       [name |-> "complex_python", kind |-> "complex", probe |-> "check_debugpy",
        compiler |-> None,
        expected |-> <<"Complex App ", "Finished">>] >>

ScenarioIds == 1..Len(Scenarios)

(***************************************************************************)
(* Standard input of a child.  Text is a sequence of tokens: a command     *)
(* line is one token, the line separator is the token "\n".                *)
(***************************************************************************)
\* input_cmds=None: nothing is written
NoInput == <<>>

InputLines_lateRemove ==
    <<"break scenarios.py:8", "continue", "continue", "bt 5", "locals",
      "continue", "await", "break remove --all", "output">>

\* test_complex_python: the lines of input_script
InputLines ==
    <<"break scenarios.py:8", "continue", "continue", "bt 5", "locals",
      "break remove --all", "continue", "await", "output">>

RECURSIVE Join(_, _)
\* sep.join(lines)
Join(sep, lines) ==
    IF Len(lines) = 0 THEN <<>>
    ELSE IF Len(lines) = 1 THEN <<lines[1]>>
    ELSE <<lines[1], sep>> \o Join(sep, Tail(lines))

\* test_complex_python: input_script = "\n".join([...])
input_script == Join("\n", InputLines)

\* the input_cmds argument of run_debugger_command for each step
InputOf(s) == IF s = "batch" THEN input_script ELSE NoInput

StdinChunk_reversed(input, from) ==
    [i \in 1..(Len(input) - from) |-> input[Len(input) + 1 - i]]

\* communicate(input): what one write puts into the pipe.  The input is
\* written in pieces of at most PIPE_BUF bytes; a script of a few lines is
\* one piece, so the write takes all that is left, in order
StdinChunk(input, from) == SubSeq(input, from + 1, Len(input))

MayClose_early(input, from) == TRUE

\* communicate(input): stdin is closed once the whole input is written
MayClose(input, from) == from = Len(input)

\* the position of the first line separator in the pipe, 0 if there is none
FirstNewline(p) ==
    IF \E i \in 1..Len(p) : p[i] = "\n"
    THEN CHOOSE i \in 1..Len(p) :
            p[i] = "\n" /\ \A j \in 1..(i - 1) : p[j] # "\n"
    ELSE 0

\* the child can read a line: a separator has arrived, or the stream is at
\* its end with an unterminated last line
LineReady(p, eof) == FirstNewline(p) > 0 \/ (eof /\ p # <<>>)

\* the line a read returns (without its separator) ...
ReadLine(p) ==
    IF FirstNewline(p) > 0 THEN SubSeq(p, 1, FirstNewline(p) - 1) ELSE p

\* ... and what is left in the pipe
AfterReadLine(p) ==
    IF FirstNewline(p) > 0 THEN SubSeq(p, FirstNewline(p) + 1, Len(p)) ELSE <<>>

\* os.environ of the harness process: the host's own directories
HostEnv == [XDG_CONFIG_HOME |-> <<"host-config">>,
            XDG_RUNTIME_DIR |-> <<"host-runtime">>]

ChildEnv_configOnly(d) ==
    IF d # None
    THEN [HostEnv EXCEPT !.XDG_CONFIG_HOME = <<d>>]
    ELSE HostEnv

\* run_debugger_command: env = os.environ.copy(), and with a config_dir both
\* XDG_CONFIG_HOME and XDG_RUNTIME_DIR are overridden
ChildEnv(d) ==
    IF d # None
    THEN [HostEnv EXCEPT !.XDG_CONFIG_HOME = <<d>>,
                         !.XDG_RUNTIME_DIR = RuntimeDir(d)]
    ELSE HostEnv

NoCmd == [cmd |-> "none", step |-> "none", dir |-> None, scen |-> 0,
          env |-> HostEnv, input |-> NoInput]

NoRet == [cmd |-> "none", step |-> "none", scen |-> 0, ok |-> TRUE,
          out |-> <<>>, err |-> FALSE, dir |-> None]

(***************************************************************************)
(* The debug session behind a runtime directory.  The daemon is not part   *)
(* of the harness sources; its transitions follow the protocol table of    *)
(* the specification.                                                      *)
(***************************************************************************)
SessionStates ==
    {"Unstarted", "StoppedAtEntry", "Running", "StoppedAtBreakpoint", "Exited"}

\* the pairs <<exit code is 0, next session state>> a command may produce
DaemonStep(cmd, st) ==
    CASE cmd = "stop" ->
           IF st = "Unstarted"
           THEN {<<TRUE, "Unstarted">>, <<FALSE, "Unstarted">>}
           ELSE {<<TRUE, "Unstarted">>}
      [] cmd = "start" ->
           IF st = "Unstarted"
           THEN {<<TRUE, "StoppedAtEntry">>, <<FALSE, "Unstarted">>}
           ELSE {<<FALSE, st>>}
      [] cmd = "continue" ->
           IF st \in {"StoppedAtEntry", "StoppedAtBreakpoint"}
           THEN {<<TRUE, "Running">>, <<FALSE, st>>}
           ELSE {<<FALSE, st>>}
      [] cmd = "await" ->
           IF st = "Running"
           THEN {<<TRUE, "StoppedAtBreakpoint">>, <<TRUE, "Exited">>,
                 <<FALSE, "Running">>, <<FALSE, "Exited">>}
           ELSE {<<TRUE, st>>, <<FALSE, st>>}
      [] OTHER -> {<<TRUE, st>>, <<FALSE, st>>}

\* the breakpoints of the session after a command that returned `ok`
BreaksAfter(cmd, ok, bps) ==
    CASE cmd \in {"stop", "start"} -> {}
      [] cmd = "breakpoint add" -> IF ok THEN bps \cup {"main"} ELSE bps
      [] OTHER -> bps

\* the command a line of a stdin script stands for
ScriptCmd(line) ==
    IF Len(line) # 1 THEN "unknown"
    ELSE CASE line[1] = "break scenarios.py:8" -> "break"
           [] line[1] = "break remove --all" -> "break remove"
           [] line[1] \in {"continue", "await", "locals", "output"} -> line[1]
           [] line[1] = "bt 5" -> "bt"
           [] OTHER -> "unknown"

\* the location a `break` line names
BreakLocation(line) ==
    IF line = <<"break scenarios.py:8">> THEN "scenarios.py:8" ELSE "unknown"

\* the pairs <<next session state, next breakpoints>> a command read from a
\* stdin script may produce; a command that fails changes nothing, and an
\* await ends at a breakpoint only while one is set
SessionStep(line, st, bps) ==
    LET c == ScriptCmd(line) IN
    CASE c = "break" -> {<<st, bps \cup {BreakLocation(line)}>>, <<st, bps>>}
      [] c = "break remove" -> {<<st, {}>>, <<st, bps>>}
      [] c = "continue" -> {<<r[2], bps>> : r \in DaemonStep("continue", st)}
      [] c = "await" ->
           {<<r[2], bps>> :
              r \in {q \in DaemonStep("await", st) :
                        q[2] = "StoppedAtBreakpoint" /\ st = "Running"
                           => bps # {}}}
      [] OTHER -> {<<st, bps>>}

(***************************************************************************)
(* test_program and test_complex_python: the control flow between the      *)
(* debugger commands.                                                      *)
(***************************************************************************)
\* the argument vector's first word for each step
Cmd(s) ==
    CASE s \in {"continue1", "continue2"} -> "continue"
      [] s \in {"await1", "await2"} -> "await"
      [] OTHER -> s

CommandSteps ==
    {"stop", "start", "breakpoint add", "continue1", "await1", "threads",
     "locals", "continue2", "await2", "output", "batch"}

Verify_needsOk(expected, ok, out) == ok /\ In(expected, out)

\* the verdict after `output` (and after the batched script): the expected
\* text occurs in the captured stdout
Verify(expected, ok, out) == In(expected, out)

AfterBuild_noStop == "start"

\* "Stop any existing daemon to ensure clean state": the first command
AfterBuild == "stop"

test_program_compile_unchecked(outcome) ==
    IF outcome # "FileNotFoundError" THEN AfterBuild ELSE "False"

\* test_program, step 1: compiler_func raised (check_call: non-zero exit or
\* missing compiler) -> return False; else go on
test_program_compile(outcome) ==
    IF outcome = "ok" THEN AfterBuild ELSE "False"

\* test_program: where a scenario starts
test_program_entry(compiler) ==
    IF compiler # None THEN "compile" ELSE AfterBuild

OnStop_checked(ok) == IF ok THEN "start" ELSE "False"

\* run_debugger_command(["stop"], config_dir): the result is dropped
OnStop(ok) == "start"

OnRequired_ignored(ok, nxt) == nxt

\* `if not ok: return False` after start, breakpoint add, continue, locals
OnRequired(ok, nxt) == IF ok THEN nxt ELSE "False"

OnAwaitStop_retry(ok) == IF ok THEN "threads" ELSE "await1"

\* the first await: `if not ok: return False`
OnAwaitStop(ok) == IF ok THEN "threads" ELSE "False"

OnThreads_skipLocals(ok) == "continue2"

\* threads: the result is only logged
OnThreads(ok) == "locals"

OnAwaitExit_checked(ok) == IF ok THEN "output" ELSE "False"

\* the second await: "await might fail if session is already terminated";
\* the result is dropped
OnAwaitExit(ok) == "output"

\* test_program: the step after `s` returned `ok`, or "True"/"False" when the
\* function returns
test_program_next(s, ok, out, expected) ==
    CASE s = "stop" -> OnStop(ok)
      [] s = "start" -> OnRequired(ok, "breakpoint add")
      [] s = "breakpoint add" -> OnRequired(ok, "continue1")
      [] s = "continue1" -> OnRequired(ok, "await1")
      [] s = "await1" -> OnAwaitStop(ok)
      [] s = "threads" -> OnThreads(ok)
      [] s = "locals" -> OnRequired(ok, "continue2")
      [] s = "continue2" -> OnRequired(ok, "await2")
      [] s = "await2" -> OnAwaitExit(ok)
      [] s = "output" -> IF Verify(expected, ok, out) THEN "True" ELSE "False"

test_complex_python_entry_noStop == "start"

\* test_complex_python: once main.py is found, the first command is `stop`
test_complex_python_entry == "stop"

test_complex_python_next_startUnchecked(s, ok, out, expected) ==
    CASE s = "stop" -> "start"
      [] s = "start" -> "batch"
      [] s = "batch" -> IF Verify(expected, ok, out) THEN "True" ELSE "False"

\* test_complex_python: stop, start, then one batched script
test_complex_python_next(s, ok, out, expected) ==
    CASE s = "stop" -> "start"
      [] s = "start" -> OnRequired(ok, "batch")
      [] s = "batch" -> IF Verify(expected, ok, out) THEN "True" ELSE "False"

Flow(k, s, ok, out) ==
    IF Scenarios[k].kind = "program"
    THEN test_program_next(s, ok, out, Scenarios[k].expected)
    ELSE test_complex_python_next(s, ok, out, Scenarios[k].expected)

(***************************************************************************)
(* blog-tutorials/example2_linked_list.py: class LinkedList.  Nodes live   *)
(* in a heap indexed by allocation order; 0 stands for None.               *)
(***************************************************************************)
\* how many Node objects a run may allocate
MaxNodes == 4

\* the values that are appended and removed are 1..MaxValue
MaxValue == 2

Values == 1..MaxValue

\* LinkedList.__init__: head = None, size = 0
EmptyList == [head |-> 0, size |-> 0, value |-> <<>>, next |-> <<>>]

RECURSIVE LastNode(_, _)
\* append: `while current.next: current = current.next`
LastNode(l, current) ==
    IF l.next[current] = 0 THEN current ELSE LastNode(l, l.next[current])

\* LinkedList.append(value)
append(l, v) ==
    LET new_node == Len(l.value) + 1
        heap == [l EXCEPT !.value = Append(l.value, v),
                          !.next = Append(l.next, 0)]
        linked == IF l.head = 0
                  THEN [heap EXCEPT !.head = new_node]
                  ELSE [heap EXCEPT !.next[LastNode(l, l.head)] = new_node]
    IN [linked EXCEPT !.size = l.size + 1]

\* remove, `if previous is None`: head moves on; the function returns
\* before size is touched
unlink_head(l, current) == [l EXCEPT !.head = l.next[current]]

\* remove, else branch: the node is bypassed and size is decremented
unlink_inner(l, current, previous) ==
    [l EXCEPT !.next[previous] = l.next[current], !.size = l.size - 1]

RECURSIVE remove_from(_, _, _, _)
\* remove: the `while current:` loop
remove_from(l, current, previous, v) ==
    IF current = 0 THEN l
    ELSE IF l.value[current] = v
         THEN IF previous = 0
              THEN unlink_head(l, current)
              ELSE unlink_inner(l, current, previous)
         ELSE remove_from(l, l.next[current], current, v)

\* LinkedList.remove(value)
remove(l, v) == IF l.head = 0 THEN l ELSE remove_from(l, l.head, 0, v)

RECURSIVE to_list_from(_, _)
to_list_from(l, current) ==
    IF current = 0 THEN <<>>
    ELSE <<l.value[current]>> \o to_list_from(l, l.next[current])

\* LinkedList.to_list()
to_list(l) == to_list_from(l, l.head)

\* LinkedList.__len__
len(l) == l.size

(***************************************************************************)
(* blog-tutorials/example3_tree_traversal.py.  A tree is the set of its    *)
(* node positions: the root is 1, the children of p are 2p and 2p + 1; a   *)
(* node's value is its position.                                           *)
(***************************************************************************)
\* the deepest tree that is traversed has MaxDepth levels
MaxDepth == 3

RECURSIVE Pow2(_)
Pow2(n) == IF n = 0 THEN 1 ELSE 2 * Pow2(n - 1)

Positions == 1..(Pow2(MaxDepth) - 1)

\* every binary tree with at most MaxDepth levels, the empty one included
Trees == {t \in SUBSET Positions : \A q \in t : q > 1 => (q \div 2) \in t}

\* `root` as the traversals receive it: [root] or nothing
RootQueue(t) == IF 1 \in t THEN <<1>> ELSE <<>>

left(q) == 2 * q

right(q) == 2 * q + 1

\* level_order_correct, one pass of the loop: popleft, then append left,
\* append right
level_order_correct_step(t, q) ==
    LET node == Head(q)
        q1 == Tail(q)
        q2 == IF left(node) \in t THEN Append(q1, left(node)) ELSE q1
    IN IF right(node) \in t THEN Append(q2, right(node)) ELSE q2

\* level_order_traversal, one pass of the loop: pop(0), then
\* insert(0, right), insert(0, left)
level_order_traversal_step(t, q) ==
    LET node == Head(q)
        q1 == Tail(q)
        q2 == IF right(node) \in t THEN <<right(node)>> \o q1 ELSE q1
    IN IF left(node) \in t THEN <<left(node)>> \o q2 ELSE q2

(***************************************************************************)
(* main()                                                                  *)
(***************************************************************************)
Aggregate_reset(f, passed) == ~passed

\* `if not test_...(...): failed = True`
Aggregate(f, passed) == f \/ ~passed

EnvFor_fresh(k) == CHOOSE d \in DirNames : d # config_dir

\* the config_dir main() hands to scenario k
EnvFor(k) == config_dir

ProbeGate_ignored(probe, found) == TRUE

\* `if check_debugpy():` / `if check_delve():` -- the scenario is entered
\* only when its probe succeeded
ProbeGate(probe, found) == found

communicate_noWait(n) == n

\* process.communicate() returns once the child has exited
communicate(n) == n - 1

OnException_noFinally == "exit"

\* where an exception raised inside the try block goes
OnException == "finally"

NextScenario_again ==
    /\ pc' = pc
    /\ scen' = scen
    /\ step' = "begin"

\* main() moves on to the next scenario, or leaves the try block
NextScenario ==
    IF scen < Len(Scenarios)
    THEN /\ pc' = pc
         /\ scen' = scen + 1
         /\ step' = "begin"
    ELSE /\ pc' = "finally"
         /\ scen' = scen
         /\ step' = "end"

\* a scenario function returned `passed`
Finish(passed) ==
    /\ result' = [result EXCEPT ![scen] = IF passed THEN "pass" ELSE "fail"]
    /\ failed' = Aggregate(failed, passed)
    /\ NextScenario

\* the scenario is skipped
Skip ==
    /\ result' = [result EXCEPT ![scen] = "skip"]
    /\ failed' = failed
    /\ NextScenario

Init ==
    /\ pc = "check_binary"
    /\ scen = 1
    /\ step = "begin"
    /\ config_dir = None
    /\ fs = {}
    /\ failed = FALSE
    /\ exc = FALSE
    /\ exitcode = None
    /\ child = NoCmd
    /\ last = NoCmd
    /\ ret = NoRet
    /\ result = [k \in ScenarioIds |-> "none"]
    /\ toolchain = [k \in ScenarioIds |-> "unknown"]
    /\ usedDir = [k \in ScenarioIds |-> None]
    /\ daemon = [d \in DirNames |-> "Unstarted"]
    /\ returned = {}
    /\ issued = <<>>
    /\ nonzero = {}
    /\ probed = [k \in ScenarioIds |-> "unknown"]
    /\ build = [k \in ScenarioIds |-> "none"]
    /\ alive = 0
    /\ sent = 0
    /\ closed = FALSE
    /\ pipe = <<>>
    /\ received = <<>>
    /\ breaks = {}
    /\ ll = EmptyList
    /\ tree = {}
    /\ queue = <<>>
    /\ level = <<>>
    /\ correct = <<>>

\* main: the debugger binary must exist, else exit(1)
CheckBinary ==
    /\ pc = "check_binary"
    /\ \E found \in BOOLEAN :
         IF found
         THEN /\ pc' = "setup_config"
              /\ exitcode' = exitcode
         ELSE /\ pc' = "done"
              /\ exitcode' = 1
    /\ UNCHANGED <<scen, step, config_dir, fs, failed, exc, child, last, ret,
                   result, toolchain, usedDir, session, returned, hist, io>>
    /\ UNCHANGED tutorial

\* config_dir = setup_config(); failed = False
SetupConfig ==
    /\ pc = "setup_config"
    /\ \E d \in mkdtemp(fs) :
         /\ fs' = setup_config_files(fs, d)
         /\ config_dir' = d
         /\ returned' = returned \cup {d}
    /\ failed' = FALSE
    /\ pc' = "scenario"
    /\ UNCHANGED <<scen, step, exc, exitcode, child, last, ret, result,
                   toolchain, usedDir, session, hist, io>>
    /\ UNCHANGED tutorial

\* the start of a scenario in main(): the capability probe and the file checks
Begin ==
    /\ pc = "scenario"
    /\ step = "begin"
    /\ LET sc == Scenarios[scen] IN
       \E found \in BOOLEAN, present \in BOOLEAN :
         /\ sc.probe = "none" => found /\ present
         /\ sc.probe = "check_debugpy" /\ sc.kind = "program" => present
         /\ ~found => present
         /\ toolchain' = [toolchain EXCEPT ![scen] =
                IF sc.probe = "none" THEN @
                ELSE IF found THEN "present" ELSE "absent"]
         /\ probed' = [probed EXCEPT ![scen] =
                IF sc.probe = "none" THEN @
                ELSE IF found THEN "ok" ELSE "failed"]
         /\ IF ~ProbeGate(sc.probe, found)
            THEN Skip                          \* probe failed
            ELSE IF sc.kind = "program"
            THEN IF present
                 THEN /\ step' = test_program_entry(sc.compiler)
                      /\ UNCHANGED <<pc, scen, result, failed>>
                 ELSE Skip                     \* hello_world.go not found
            ELSE IF present
                 THEN /\ step' = test_complex_python_entry
                      /\ UNCHANGED <<pc, scen, result, failed>>
                 ELSE Finish(FALSE)            \* complex app not found
    /\ issued' = <<>>
    /\ nonzero' = {}
    /\ UNCHANGED <<config_dir, fs, exc, exitcode, child, last, ret, usedDir,
                   session, returned, build, alive, io>>
    /\ UNCHANGED tutorial

\* test_program, step 1: the compiler runs; any exception is a failure
Compile ==
    /\ pc = "scenario"
    /\ step = "compile"
    /\ \E outcome \in {"ok", "CalledProcessError", "FileNotFoundError"} :
         /\ toolchain' = [toolchain EXCEPT ![scen] =
                IF outcome = "FileNotFoundError" THEN "absent" ELSE "present"]
         /\ build' = [build EXCEPT ![scen] = outcome]
         /\ LET nxt == test_program_compile(outcome) IN
            IF nxt = "False"
            THEN Finish(FALSE)
            ELSE /\ step' = nxt
                 /\ UNCHANGED <<pc, scen, result, failed>>
    /\ UNCHANGED <<config_dir, fs, exc, exitcode, child, last, ret, usedDir,
                   session, returned, issued, nonzero, probed, alive, io>>
    /\ UNCHANGED tutorial

\* run_debugger_command up to Popen: the environment is prepared and the
\* child is spawned
Spawn ==
    /\ pc = "scenario"
    /\ step \in CommandSteps
    /\ child = NoCmd
    /\ fs' = PrepareEnv(fs, EnvFor(scen))
    /\ child' = [cmd |-> Cmd(step), step |-> step, dir |-> EnvFor(scen),
                  scen |-> scen, env |-> ChildEnv(EnvFor(scen)),
                  input |-> InputOf(step)]
    /\ last' = child'
    /\ usedDir' = [usedDir EXCEPT ![scen] = EnvFor(scen)]
    /\ issued' = Append(issued, step)
    /\ alive' = alive + 1
    /\ sent' = 0
    /\ closed' = MayClose(InputOf(step), 0)
    /\ pipe' = <<>>
    /\ received' = <<>>
    /\ UNCHANGED <<pc, scen, step, config_dir, failed, exc, exitcode, ret,
                   result, toolchain, session, returned, nonzero, probed,
                   build>>
    /\ UNCHANGED tutorial

\* communicate(input=...): the input goes into the pipe
WriteStdin ==
    /\ pc = "scenario"
    /\ child # NoCmd
    /\ ~closed
    /\ sent < Len(child.input)
    /\ pipe' = pipe \o StdinChunk(child.input, sent)
    /\ sent' = sent + Len(StdinChunk(child.input, sent))
    /\ UNCHANGED <<pc, scen, step, config_dir, fs, failed, exc, exitcode,
                   child, last, ret, result, toolchain, usedDir, session,
                   returned, hist, closed, received>>
    /\ UNCHANGED tutorial

\* communicate(input=...): the input stream is closed
CloseStdin ==
    /\ pc = "scenario"
    /\ child # NoCmd
    /\ ~closed
    /\ MayClose(child.input, sent)
    /\ closed' = TRUE
    /\ UNCHANGED <<pc, scen, step, config_dir, fs, failed, exc, exitcode,
                   child, last, ret, result, toolchain, usedDir, session,
                   returned, hist, sent, pipe, received>>
    /\ UNCHANGED tutorial

\* the child reads its next command line from stdin and carries it out
\* against the session of its runtime directory
ChildReadLine ==
    /\ pc = "scenario"
    /\ child # NoCmd
    /\ LineReady(pipe, closed)
    /\ received' = Append(received, ReadLine(pipe))
    /\ pipe' = AfterReadLine(pipe)
    /\ \E r \in SessionStep(ReadLine(pipe), daemon[child.dir], breaks) :
         /\ daemon' = [daemon EXCEPT ![child.dir] = r[1]]
         /\ breaks' = r[2]
    /\ UNCHANGED <<pc, scen, step, config_dir, fs, failed, exc, exitcode,
                   child, last, ret, result, toolchain, usedDir,
                   returned, hist, sent, closed>>
    /\ UNCHANGED tutorial

\* run_debugger_command: Popen raises (OSError); nothing catches it before
\* main's finally
SpawnRaises ==
    /\ pc = "scenario"
    /\ step \in CommandSteps
    /\ child = NoCmd
    /\ fs' = PrepareEnv(fs, EnvFor(scen))
    /\ exc' = TRUE
    /\ result' = [result EXCEPT ![scen] = "raised"]
    /\ pc' = OnException
    /\ step' = "end"
    /\ UNCHANGED <<scen, config_dir, failed, exitcode, child, last, ret,
                   toolchain, usedDir, session, returned, hist, io>>
    /\ UNCHANGED tutorial

\* communicate() returns: the child has exited; the scenario function reads
\* the result and goes on to its next command or returns
Return ==
    /\ pc = "scenario"
    /\ child # NoCmd
    /\ closed
    /\ pipe = <<>>
    /\ \E r \in DaemonStep(child.cmd, daemon[child.dir]),
          out \in StdoutsOf(step, Scenarios[scen].expected),
          err \in BOOLEAN :
         /\ daemon' = [daemon EXCEPT ![child.dir] = r[2]]
         /\ breaks' = BreaksAfter(child.cmd, r[1], breaks)
         /\ ret' = [cmd |-> child.cmd, step |-> step, scen |-> scen,
                    ok |-> r[1], out |-> out, err |-> err,
                    dir |-> child.dir]
         /\ nonzero' = IF r[1] THEN nonzero ELSE nonzero \cup {step}
         /\ LET nxt == Flow(scen, step, r[1], out) IN
            IF nxt \in {"True", "False"}
            THEN Finish(nxt = "True")
            ELSE /\ step' = nxt
                 /\ UNCHANGED <<pc, scen, result, failed>>
    /\ child' = NoCmd
    /\ alive' = communicate(alive)
    /\ UNCHANGED <<config_dir, fs, exc, exitcode, last, toolchain, usedDir,
                   returned, issued, probed, build, io>>
    /\ UNCHANGED tutorial

\* finally: shutil.rmtree(config_dir)
Finally ==
    /\ pc = "finally"
    /\ IF rmtree_raises(fs, config_dir)
       THEN /\ exc' = TRUE
            /\ fs' = fs
       ELSE /\ exc' = exc
            /\ fs' = rmtree(fs, config_dir)
    /\ pc' = "exit"
    /\ UNCHANGED <<scen, step, config_dir, failed, exitcode, child, last, ret,
                   result, toolchain, usedDir, session, returned, hist, io>>
    /\ UNCHANGED tutorial

\* an uncaught exception ends the interpreter with status 1; otherwise
\* sys.exit(1) if failed, sys.exit(0) if not
Exit ==
    /\ pc = "exit"
    /\ exitcode' = IF exc THEN 1 ELSE IF failed THEN 1 ELSE 0
    /\ pc' = "done"
    /\ UNCHANGED <<scen, step, config_dir, fs, failed, exc, child, last, ret,
                   result, toolchain, usedDir, session, returned, hist, io>>
    /\ UNCHANGED tutorial

Next ==
    \/ CheckBinary
    \/ SetupConfig
    \/ Begin
    \/ Compile
    \/ Spawn
    \/ SpawnRaises
    \/ WriteStdin
    \/ CloseStdin
    \/ ChildReadLine
    \/ Return
    \/ Finally
    \/ Exit

Spec == Init /\ [][Next]_vars

\* main() takes its next step whenever it has one, and every child that was
\* spawned reads its input and exits: some step of Next is taken as long as
\* one is possible
FairSpec == Spec /\ WF_vars(Next)

(***************************************************************************)
(* The provisioner on its own: setup_config, the environment preparation   *)
(* of run_debugger_command and the teardown of main's finally block,       *)
(* applied in any order to any path setup_config has returned.             *)
(***************************************************************************)
ProvisionerInit ==
    /\ pc = "provisioner"
    /\ scen = 1
    /\ step = "begin"
    /\ config_dir = None
    /\ fs = {}
    /\ failed = FALSE
    /\ exc = FALSE
    /\ exitcode = None
    /\ child = NoCmd
    /\ last = NoCmd
    /\ ret = NoRet
    /\ result = [k \in ScenarioIds |-> "none"]
    /\ toolchain = [k \in ScenarioIds |-> "unknown"]
    /\ usedDir = [k \in ScenarioIds |-> None]
    /\ daemon = [d \in DirNames |-> "Unstarted"]
    /\ returned = {}
    /\ issued = <<>>
    /\ nonzero = {}
    /\ probed = [k \in ScenarioIds |-> "unknown"]
    /\ build = [k \in ScenarioIds |-> "none"]
    /\ alive = 0
    /\ sent = 0
    /\ closed = FALSE
    /\ pipe = <<>>
    /\ received = <<>>
    /\ breaks = {}
    /\ ll = EmptyList
    /\ tree = {}
    /\ queue = <<>>
    /\ level = <<>>
    /\ correct = <<>>

ProvisionerIdle ==
    UNCHANGED <<pc, scen, failed, exitcode, child, ret, result, toolchain,
                usedDir, hist, io, tutorial>>

\* setup_config()
Provision ==
    /\ pc = "provisioner"
    /\ \E d \in mkdtemp(fs) :
         /\ fs' = setup_config_files(fs, d)
         /\ config_dir' = d
         /\ returned' = returned \cup {d}
    /\ exc' = FALSE
    /\ step' = "setup_config"
    /\ UNCHANGED <<last, session>>
    /\ ProvisionerIdle

\* run_debugger_command(["stop"], d) or (["start", ...], d), from the
\* environment preparation to the return of communicate()
Invoke ==
    /\ pc = "provisioner"
    /\ \E d \in returned, c \in {"stop", "start"} :
         /\ fs' = PrepareEnv(fs, d)
         /\ config_dir' = d
         /\ last' = [cmd |-> c, step |-> c, dir |-> d, scen |-> scen,
                      env |-> ChildEnv(d), input |-> NoInput]
         /\ \E r \in DaemonStep(c, daemon[d]) :
              /\ daemon' = [daemon EXCEPT ![d] = r[2]]
              /\ breaks' = BreaksAfter(c, r[1], breaks)
    /\ exc' = FALSE
    /\ step' = "run_debugger_command"
    /\ UNCHANGED returned
    /\ ProvisionerIdle

\* shutil.rmtree(d), as main's finally block calls it
Destroy ==
    /\ pc = "provisioner"
    /\ \E d \in returned :
         /\ config_dir' = d
         /\ IF rmtree_raises(fs, d)
            THEN /\ exc' = TRUE
                 /\ fs' = fs
            ELSE /\ exc' = FALSE
                 /\ fs' = rmtree(fs, d)
    /\ step' = "rmtree"
    /\ UNCHANGED <<returned, last, session>>
    /\ ProvisionerIdle

ProvisionerNext ==
    \/ Provision
    \/ Invoke
    \/ Destroy

ProvisionerSpec == ProvisionerInit /\ [][ProvisionerNext]_vars

(***************************************************************************)
(* The tutorial programs on their own.  The harness stands still.          *)
(***************************************************************************)
harness ==
    <<scen, step, config_dir, fs, failed, exc, exitcode, child, last, ret,
      result, toolchain, usedDir, returned, hist, io, session>>

HarnessIdleAt(p) ==
    /\ pc = p
    /\ scen = 1
    /\ step = "begin"
    /\ config_dir = None
    /\ fs = {}
    /\ failed = FALSE
    /\ exc = FALSE
    /\ exitcode = None
    /\ child = NoCmd
    /\ last = NoCmd
    /\ ret = NoRet
    /\ result = [k \in ScenarioIds |-> "none"]
    /\ toolchain = [k \in ScenarioIds |-> "unknown"]
    /\ usedDir = [k \in ScenarioIds |-> None]
    /\ daemon = [d \in DirNames |-> "Unstarted"]
    /\ returned = {}
    /\ issued = <<>>
    /\ nonzero = {}
    /\ probed = [k \in ScenarioIds |-> "unknown"]
    /\ build = [k \in ScenarioIds |-> "none"]
    /\ alive = 0
    /\ sent = 0
    /\ closed = FALSE
    /\ pipe = <<>>
    /\ received = <<>>
    /\ breaks = {}

\* ll = LinkedList()
ListInit ==
    /\ HarnessIdleAt("test_linked_list")
    /\ ll = EmptyList
    /\ tree = {}
    /\ queue = <<>>
    /\ level = <<>>
    /\ correct = <<>>

\* ll.append(v)
ListAppend ==
    /\ pc = "test_linked_list"
    /\ Len(ll.value) < MaxNodes
    /\ \E v \in Values : ll' = append(ll, v)
    /\ UNCHANGED <<pc, harness, tree, queue, level, correct>>

\* ll.remove(v)
ListRemove ==
    /\ pc = "test_linked_list"
    /\ \E v \in Values : ll' = remove(ll, v)
    /\ UNCHANGED <<pc, harness, tree, queue, level, correct>>

ListNext ==
    \/ ListAppend
    \/ ListRemove

ListSpec == ListInit /\ [][ListNext]_vars

\* test_traversals with any tree: level_order_traversal(tree) is entered
TreeInit ==
    /\ HarnessIdleAt("level_order_traversal")
    /\ ll = EmptyList
    /\ tree \in Trees
    /\ queue = RootQueue(tree)
    /\ level = <<>>
    /\ correct = <<>>

\* level_order_traversal: one pass of `while queue:`
TraversalStep ==
    /\ pc = "level_order_traversal"
    /\ queue # <<>>
    /\ level' = Append(level, Head(queue))
    /\ queue' = level_order_traversal_step(tree, queue)
    /\ UNCHANGED <<pc, harness, ll, tree, correct>>

\* level_order_traversal returns; level_order_correct(tree) is entered
TraversalReturn ==
    /\ pc = "level_order_traversal"
    /\ queue = <<>>
    /\ pc' = "level_order_correct"
    /\ queue' = RootQueue(tree)
    /\ UNCHANGED <<harness, ll, tree, level, correct>>

\* level_order_correct: one pass of `while queue:`
CorrectStep ==
    /\ pc = "level_order_correct"
    /\ queue # <<>>
    /\ correct' = Append(correct, Head(queue))
    /\ queue' = level_order_correct_step(tree, queue)
    /\ UNCHANGED <<pc, harness, ll, tree, level>>

\* level_order_correct returns
CorrectReturn ==
    /\ pc = "level_order_correct"
    /\ queue = <<>>
    /\ pc' = "compared"
    /\ UNCHANGED <<harness, ll, tree, queue, level, correct>>

TreeNext ==
    \/ TraversalStep
    \/ TraversalReturn
    \/ CorrectStep
    \/ CorrectReturn

TreeSpec == TreeInit /\ [][TreeNext]_vars

(***************************************************************************)
(* Properties                                                              *)
(***************************************************************************)
Executed(k) == result[k] \in {"pass", "fail", "raised"}

SomeFailed == \E k \in ScenarioIds : result[k] = "fail"

\* C1: once setup_config has returned, the process has exited only after
\* every path of the provisioned directory, its runtime subdirectory
\* included, was removed -- whether the scenarios passed, failed or raised.
C1_TeardownBeforeExit ==
    (pc = "done" /\ config_dir # None) =>
        /\ \A p \in fs : p[1] # config_dir
        /\ ~exists(fs, RuntimeDir(config_dir))

C1_Witness ==
    /\ pc = "done"
    /\ exc
    /\ usedDir[2] # None
    /\ result[1] = "fail"

\* C2 as stated: the process exits with 1 exactly when some scenario failed,
\* and with 0 otherwise.
C2_ExitOneIffScenarioFailed ==
    pc = "done" => exitcode = (IF SomeFailed THEN 1 ELSE 0)

\* C2, amended: the exit code is 1 exactly when the debugger binary is
\* missing, a scenario failed or an exception escaped main, and 0 otherwise;
\* the failed flag is set exactly when some scenario has failed so far, so a
\* skip never sets it and a later pass never clears it.
C2_ExitCode ==
    /\ pc = "done" =>
         exitcode = (IF config_dir = None \/ exc \/ SomeFailed THEN 1 ELSE 0)
    /\ pc \in {"scenario", "finally", "exit", "done"} => (failed <=> SomeFailed)

C2_Witness ==
    /\ pc = "done"
    /\ exitcode = 1
    /\ ~exc
    /\ result[1] = "fail"
    /\ result[2] = "pass"
    /\ result[4] = "skip"

\* C3: when a scenario fails or raises, every later scenario is still
\* reached, and is executed if its capability probe succeeded.
C3_FailuresScenarioLocal ==
    (pc = "done" /\ config_dir # None) =>
        \A k \in ScenarioIds : result[k] \in {"fail", "raised"} =>
            \A j \in ScenarioIds : j > k =>
                /\ result[j] # "none"
                /\ (Scenarios[j].probe # "none" /\ toolchain[j] = "present")
                      => Executed(j)

\* C4: a scenario whose compiler or debug adapter is absent from the host is
\* skipped, never failed.
C4_AbsentToolchainSkips ==
    \A k \in ScenarioIds : toolchain[k] = "absent" => result[k] = "skip"

C6_ProvisionedBeforeSpawn ==
    /\ Cardinality(LiveEnvs(fs)) <= 1
    /\ (child # NoCmd /\ child.dir # None) => Provisioned(fs, child.dir)

C6_Witness ==
    /\ child.cmd = "stop"
    /\ child.scen = 1
    /\ ret = NoRet

\* C7: a teardown of a directory that is already absent does not raise and
\* leaves the directory absent.
C7_DestroyIdempotent ==
    [][(pc = "provisioner" /\ step' = "rmtree"
            /\ ~exists(fs, <<config_dir'>>))
          => (~exc' /\ ~exists(fs', <<config_dir'>>))]_vars

\* C8: a `start` is spawned only directly after a `stop` that was spawned
\* with the same config_dir (hence the same runtime-socket path); no other
\* debugger command lies between the two.
C8_StopDirectlyBeforeStart ==
    [][(child'.cmd = "start" /\ child.cmd # "start")
          => (last.cmd = "stop" /\ last.dir = child'.dir)]_vars

C8_Witness ==
    /\ child.cmd = "start"
    /\ Scenarios[child.scen].kind = "complex"
    /\ result[1] = "pass"

\* C9: while a `start` is being executed, the runtime directory it addresses
\* holds no session of an earlier scenario: the session is Unstarted.
C9_NoStaleSessionAtStart ==
    child.cmd = "start" => daemon[child.dir] = "Unstarted"

C9_Witness ==
    /\ child.cmd = "start"
    /\ child.scen = 3
    /\ result[1] = "pass"
    /\ result[2] = "fail"
    /\ ret.cmd = "stop"

\* C10: after `output` has returned, the scenario has passed exactly when
\* the expected text occurs in the stdout of that invocation, whatever its
\* exit code and stderr and whatever `threads` and the second `await`
\* returned.
C10_PassIffExpectedInOutput ==
    ret.cmd = "output" =>
        (result[ret.scen] = "pass"
            <=> In(Scenarios[ret.scen].expected, ret.out))

C10_Witness ==
    /\ ret.cmd = "output"
    /\ ~ret.ok
    /\ ret.err
    /\ Len(ret.out) > Len(Scenarios[ret.scen].expected)
    /\ result[ret.scen] = "pass"

\* the steps whose non-zero exit code the protocol table makes fatal
RequiredSteps == {"start", "breakpoint add", "continue1", "continue2"}

\* C11: after start, breakpoint add or either continue returned non-zero,
\* the scenario has failed and the failed command is the last one that was
\* issued for that scenario: no await, locals or output follows it.
C11_FailFastOnRequired ==
    (ret.step \in RequiredSteps /\ ~ret.ok) =>
        /\ result[ret.scen] = "fail"
        /\ last.scen = ret.scen => (last.step = ret.step /\ child = NoCmd)

C11_Witness ==
    /\ ret.step = "continue2"
    /\ ~ret.ok
    /\ pc = "done"

NoDuplicates(s) == \A i, j \in 1..Len(s) : i # j => s[i] # s[j]

Count(s, c) == Cardinality({i \in 1..Len(s) : Cmd(s[i]) = c})

\* C12: a first await that returned non-zero fails the scenario and is the
\* last command issued for it; within a scenario no step is issued twice,
\* so continue and await are issued at most twice each.
C12_AwaitNotRetried ==
    /\ (ret.step = "await1" /\ ~ret.ok) =>
          /\ result[ret.scen] = "fail"
          /\ last.scen = ret.scen => (last.step = "await1" /\ child = NoCmd)
    /\ NoDuplicates(issued)
    /\ Count(issued, "continue") <= 2
    /\ Count(issued, "await") <= 2

C12_Witness ==
    /\ ret.step = "await1"
    /\ ~ret.ok
    /\ result[ret.scen] = "fail"
    /\ Len(issued) = 5

\* C13: after threads or locals returned non-zero the scenario has not
\* failed: it is still running (towards the second continue).
C13_InspectionNonFatal ==
    (~exc /\ ret.step \in {"threads", "locals"} /\ ~ret.ok) =>
        /\ result[ret.scen] = "none"
        /\ pc = "scenario"
        /\ scen = ret.scen

\* C14: when the second await returns, with any exit code, the scenario
\* neither fails nor ends: its next command is output.
C14_SecondAwaitTolerated ==
    [][(child.step = "await2" /\ child' = NoCmd)
          => /\ step' = "output"
             /\ pc' = "scenario"
             /\ scen' = scen
             /\ result' = result
             /\ failed' = failed]_vars

C14_Witness ==
    /\ "await2" \in nonzero
    /\ ret.step = "output"
    /\ result[ret.scen] = "pass"

\* C15: when stop returns, with any exit code, nothing is raised, the
\* scenario does not fail and its next command is start.
C15_StopOutcomeIgnored ==
    [][(child.step = "stop" /\ child' = NoCmd)
          => /\ step' = "start"
             /\ pc' = "scenario"
             /\ scen' = scen
             /\ result' = result
             /\ failed' = failed
             /\ exc' = exc]_vars

C15_Witness ==
    /\ "stop" \in nonzero
    /\ child.step = "start"
    /\ daemon[child.dir] = "Unstarted"

ProtocolSeq ==
    <<"stop", "start", "breakpoint add", "continue", "await", "threads",
      "locals", "continue", "await", "output">>

IsPrefix(s, t) == Len(s) <= Len(t) /\ SubSeq(t, 1, Len(s)) = s

\* the commands of `issued`, and the scenario they belong to
IssuedCmds == [i \in 1..Len(issued) |-> Cmd(issued[i])]

IssuedScen == IF issued = <<>> THEN 0 ELSE last.scen

\* C16: the commands a test_program scenario has issued are a prefix of
\* stop, start, breakpoint add, continue, await, threads, locals, continue,
\* await, output; a scenario that passed has issued exactly that sequence.
C16_FixedCommandSequence ==
    (IssuedScen # 0 /\ Scenarios[IssuedScen].kind = "program") =>
        /\ IsPrefix(IssuedCmds, ProtocolSeq)
        /\ result[IssuedScen] = "pass" => IssuedCmds = ProtocolSeq

C16_Witness ==
    /\ IssuedScen = 2
    /\ result[2] = "pass"
    /\ Len(issued) = Len(ProtocolSeq)

\* the session state the protocol table lists for each command
FromState(s) ==
    CASE s = "start" -> {"Unstarted"}
      [] s \in {"breakpoint add", "continue1"} -> {"StoppedAtEntry"}
      [] s \in {"await1", "await2"} -> {"Running"}
      [] s \in {"threads", "locals", "continue2"} -> {"StoppedAtBreakpoint"}
      [] s = "output" -> {"Exited"}
      [] OTHER -> SessionStates

\* C17: every command of test_program is issued only while the session is
\* in the state the protocol table lists for it.
C17_CommandsFromListedState ==
    (child # NoCmd /\ Scenarios[child.scen].kind = "program") =>
        daemon[child.dir] \in FromState(child.step)

\* C18: a scenario with a capability probe builds nothing and issues no
\* debugger command unless its probe succeeded; a failed probe leaves the
\* scenario skipped, and the failed flag is set only by a failed scenario.
C18_ProbePrecedesScenario ==
    /\ \A k \in ScenarioIds : Scenarios[k].probe # "none" =>
         /\ (\/ usedDir[k] # None
             \/ build[k] # "none"
             \/ (pc = "scenario" /\ scen = k /\ step # "begin"))
               => probed[k] = "ok"
         /\ probed[k] = "failed" => result[k] = "skip"
    /\ failed => SomeFailed

C18_Witness ==
    /\ probed[3] = "failed"
    /\ result[3] = "skip"
    /\ probed[4] = "ok"
    /\ build[4] = "ok"
    /\ usedDir[4] # None
    /\ ~failed

\* C19: a compiler that is present and returns non-zero fails the scenario
\* without raising; no debugger command was ever issued for it, and main
\* has moved on to the next scenario.
C19_CompileFailureFailsScenario ==
    \A k \in ScenarioIds : build[k] = "CalledProcessError" =>
        /\ result[k] = "fail"
        /\ failed
        /\ usedDir[k] = None
        /\ scen > k
        /\ last.scen # k

C19_Witness ==
    /\ build[1] = "CalledProcessError"
    /\ result[2] = "pass"
    /\ ~exc
    /\ pc = "done"

\* C20: at most one debugger CLI child is alive; a child is alive exactly
\* while communicate() waits for it, and when none is alive the outcome of
\* the last command spawned has been recorded.
C20_OneChildAtATime ==
    /\ alive <= 1
    /\ alive = (IF child = NoCmd THEN 0 ELSE 1)
    /\ (child = NoCmd /\ last # NoCmd) =>
          (ret.step = last.step /\ ret.scen = last.scen)

C20_Witness ==
    /\ alive = 1
    /\ child.step = "output"
    /\ ret.step = "await2"

\* C21: every debugger command is spawned with XDG_CONFIG_HOME set to the
\* config directory of the run and XDG_RUNTIME_DIR set to its runtime
\* subdirectory; the directory never changes while scenarios run, so all
\* commands address one socket path, and it is never the host's.
C21_IsolatedEnvPerCommand ==
    last # NoCmd =>
        /\ config_dir # None
        /\ returned = {config_dir}
        /\ last.env.XDG_CONFIG_HOME = <<config_dir>>
        /\ last.env.XDG_RUNTIME_DIR = RuntimeDir(config_dir)
        /\ last.env.XDG_CONFIG_HOME # HostEnv.XDG_CONFIG_HOME
        /\ last.env.XDG_RUNTIME_DIR # HostEnv.XDG_RUNTIME_DIR
        /\ child # NoCmd => child.env = last.env

C21_Witness ==
    /\ child.step = "batch"
    /\ child.env.XDG_RUNTIME_DIR = RuntimeDir(config_dir)
    /\ result[4] = "pass"

\* C22 as stated: every call of setup_config returns a path that no earlier
\* call returned, also after the earlier directory was removed.
C22_NeverReusesPath ==
    [][step' = "setup_config" => config_dir' \notin returned]_vars

\* C22, amended: every call of setup_config returns a path at which nothing
\* existed when the call was made, so its config root and its runtime
\* directory differ from those of every environment that still exists.
C22_FreshAmongLive ==
    [][step' = "setup_config" =>
          /\ ~exists(fs, <<config_dir'>>)
          /\ \A d \in LiveEnvs(fs) :
                /\ <<config_dir'>> # <<d>>
                /\ RuntimeDir(config_dir') # RuntimeDir(d)]_vars

C22_Witness ==
    /\ step = "setup_config"
    /\ Cardinality(LiveEnvs(fs)) = 2
    /\ \E d \in LiveEnvs(fs) : d # config_dir /\ exists(fs, RuntimeDir(d))

\* the command lines of the script, as a reader of lines sees them
ScriptLines == [i \in 1..Len(InputLines) |-> <<InputLines[i]>>]

RECURSIVE Unread(_, _)
\* the text of `lines` from line number `from` on, separators included
Unread(lines, from) ==
    IF from > Len(lines) THEN <<>>
    ELSE IF from = Len(lines) THEN lines[from]
    ELSE lines[from] \o <<"\n">> \o Unread(lines, from + 1)

\* C23: while the batched invocation runs, the child has read a prefix of
\* the script's lines in script order, what is in the pipe is the text that
\* follows them, the stream is closed only after the whole script was
\* written, and the harness has not read any response since `start`; when
\* the invocation has returned the child has read every line.
C23_ScriptDeliveredInOrder ==
    /\ (child.step = "batch" \/ (ret.step = "batch" /\ child = NoCmd)) =>
          /\ IsPrefix(received, ScriptLines)
          /\ closed => sent = Len(input_script)
          /\ IsPrefix(pipe, Unread(ScriptLines, Len(received) + 1))
          /\ Len(pipe) + Len(input_script) - sent
                = Len(Unread(ScriptLines, Len(received) + 1))
    /\ child.step = "batch" => (ret.step = "start" /\ alive = 1)
    /\ (ret.step = "batch" /\ child = NoCmd) =>
          (received = ScriptLines /\ closed)

C23_Witness ==
    /\ ret.step = "batch"
    /\ received = ScriptLines
    /\ result[5] = "pass"

\* the positions of the lines of `lines` that stand for command c
LinesOf(lines, c) == {i \in 1..Len(lines) : ScriptCmd(lines[i]) = c}

\* the batched invocation of the complex-Python scenario has returned
BatchDone == ret.step = "batch" /\ child = NoCmd

C25_MainTerminates ==
    /\ [](Len(issued) <= Len(ProtocolSeq))
    /\ <>(pc = "done" /\ exitcode \in {0, 1})

C25_Witness ==
    /\ pc = "done"
    /\ exitcode = 0
    /\ result[2] = "pass"
    /\ result[5] = "pass"
    /\ Len(received) = Len(InputLines)

\* C26: when main reaches the removal of the environment after its last
\* scenario has returned, and ever after, the session behind each runtime
\* directory is stopped (Unstarted) or has exited.
C26_NoActiveSessionAtTeardown ==
    (pc \in {"finally", "exit", "done"} /\ ~exc) =>
        \A d \in DirNames : daemon[d] \in {"Unstarted", "Exited"}

\* the complex-Python scenario
Complex == CHOOSE k \in ScenarioIds : Scenarios[k].kind = "complex"

\* C27: once the batched invocation has returned, the complex-Python
\* scenario has passed exactly when "Complex App Finished" occurs in its
\* stdout, whatever its exit code; the batch is sent only after a start that
\* returned 0, and is the scenario's only command after stop and start; a
\* start that returned non-zero fails the scenario with start as its last
\* command.
C27_ComplexVerdict ==
    /\ ret.step = "batch" =>
          (result[Complex] = "pass" <=> In(Scenarios[Complex].expected, ret.out))
    /\ result[Complex] = "pass" =>
          /\ ret.step = "batch"
          /\ issued = <<"stop", "start", "batch">>
          /\ "start" \notin nonzero
    /\ last.step = "batch" =>
          /\ "start" \notin nonzero
          /\ issued = <<"stop", "start", "batch">>
    /\ (ret.scen = Complex /\ ret.step = "start" /\ ~ret.ok) =>
          /\ result[Complex] = "fail"
          /\ last.step = "start"
          /\ child = NoCmd

C27_Witness ==
    /\ ret.step = "batch"
    /\ ~ret.ok
    /\ result[Complex] = "pass"
    /\ "stop" \in nonzero

\* C28: the size a LinkedList reports equals the number of nodes reachable
\* from its head.
C28_SizeMatchesNodes == len(ll) = Len(to_list(ll))

\* C29: once both traversals have returned, level_order_traversal has
\* produced the same sequence as level_order_correct.
C29_LevelOrderMatchesReference == pc = "compared" => level = correct

====
